---- MODULE Spec2Model ----
(***************************************************************************)
(* State-machine model of vis_pae.py: the command line entry point, the    *)
(* Input Loader of main (ten json.load calls), the Chain Segmenter         *)
(* (process_token_chains) and the Figure Composer (the body of the loop    *)
(* over the five models).                                                  *)
(*                                                                         *)
(* Conventions.                                                            *)
(*  - A chain label is a natural number standing for the label's code      *)
(*    point (1 = "A", 2 = "B", ...); numpy sorts labels by code point.     *)
(*  - Python positions are 0-based and kept 0-based in every value the     *)
(*    program computes; token i is element i + 1 of a TLA+ sequence.       *)
(*  - A dict is the sequence of its <<key, value>> items in insertion      *)
(*    order, the order in which Python iterates it.                        *)
(*  - A drawing coordinate is kept in half-token units: the coordinate x   *)
(*    is stored as 2 * x, so start_index - 0.5 is 2 * start_index - 1 and  *)
(*    (start_index + end_index) / 2 is start_index + end_index.            *)
(*                                                                         *)
(* Specifications.                                                         *)
(*  - Spec: one run of the script on a prediction directory in which at    *)
(*    most MaxDefects files deviate from the well-formed ones.             *)
(*  - SpecPair: Spec followed by a second run on the same directory after  *)
(*    summary-confidences files have been replaced.                        *)
(*  - SpecSeg: process_token_chains, and the two overlay loops that read   *)
(*    its results, on every label sequence up to MaxLen.                   *)
(***************************************************************************)
EXTENDS Integers, Sequences, FiniteSets, TLC

\* ------------------------------------------------------------------ bounds

\* Longest label sequence handed to process_token_chains in SpecSeg.
MaxLen == 7

\* Number of distinct chain labels available to an input.
NumLabels == 3

\* Longest token_chain_ids, over the labels "A" and "B", of the predictions
\* the script is run on.
MainMaxLen == 2

\* Largest number of input files that deviate from a well-formed directory.
MaxDefects == 1

\* ------------------------------------------------------- program constants

\* range(5): the number of models, and of files of each kind.
NumModels == 5

\* token_res_ids[i] % 200 == 0
TickEvery == 200

Labels == 1..NumLabels

Models == 0..(NumModels - 1)

Keys == {"token_chain_ids", "token_res_ids", "pae"}

VARIABLES
    argc,                   \* len(sys.argv)
    files_full,             \* the directory: <dir>_full_data_<i>.json, i = 0..4
    files_conf,             \* the directory: <dir>_summary_confidences_<i>.json
    pc,                     \* the statement the process is at
    opened,                 \* the files open() was called on, in order
    json_data_full,         \* main: list built at line 75
    json_data_confidence,   \* main: list built at line 76
    model_num,              \* main: the loop variable of line 78
    token_chain_ids,        \* process_token_chains: its argument
    chain_to_num,           \* main: locals bound at line 90
    chain_to_start_index,
    chain_to_end_index,
    token_chain_nums,
    xticks_loc,             \* main: lists built at lines 94-99
    xticks_present,
    figure,                 \* the figure under construction (heatmap, strips)
    lines,                  \* separator lines drawn on the figure
    texts,                  \* text annotations drawn on the figure
    written,                \* the images saved by this run, in order
    stdout,                 \* what the process printed
    error,                  \* the uncaught exception that ended the run
    exit_status,            \* exit status of the process, -1 while it runs
    run,                    \* 1: first invocation, 2: second invocation
    prev                    \* what the first invocation did, once it has exited

vars == <<argc, files_full, files_conf, pc, opened, json_data_full,
          json_data_confidence, model_num, token_chain_ids, chain_to_num,
          chain_to_start_index, chain_to_end_index, token_chain_nums,
          xticks_loc, xticks_present, figure, lines, texts, written, stdout,
          error, exit_status, run, prev>>

\* ---------------------------------------------------------------- helpers

Range(s) == {s[i] : i \in 1..Len(s)}

\* All sequences over S of length lo..hi.
SeqsOf(S, lo, hi) == UNION {[1..n -> S] : n \in lo..hi}

\* dict: the keys, in insertion order, and lookup.
DictKeys(d) == [i \in 1..Len(d) |-> d[i][1]]

DictHas(d, k) == \E i \in 1..Len(d) : d[i][1] = k

DictGet(d, k) == d[CHOOSE i \in 1..Len(d) : d[i][1] = k][2]

\* d[k] = v: an existing key keeps its place and takes the new value, a new
\* key is appended.
DictSet(d, k, v) ==
    IF DictHas(d, k)
    THEN [i \in 1..Len(d) |-> IF d[i][1] = k THEN <<k, v>> ELSE d[i]]
    ELSE Append(d, <<k, v>>)

\* ------------------------------------------------- process_token_chains

\* ndarray.sort(): the elements in ascending order, by insertion.
SortInsert(x, s) ==
    LET k == Cardinality({i \in 1..Len(s) : s[i] <= x})
    IN  SubSeq(s, 1, k) \o <<x>> \o SubSeq(s, k + 1, Len(s))

RECURSIVE np_sort(_)
np_sort(ar) ==
    IF ar = <<>> THEN <<>> ELSE SortInsert(Head(ar), np_sort(Tail(ar)))

\* ar[mask]: the elements of ar whose mask entry is true, in order.
RECURSIVE Compress(_, _)
Compress(ar, mask) ==
    IF ar = <<>> THEN <<>>
    ELSE (IF Head(mask) THEN <<Head(ar)>> ELSE <<>>)
         \o Compress(Tail(ar), Tail(mask))

\* Faulty variant of np_unique: the distinct elements in the order in which
\* they first appear, not sorted.
UniqueUnsorted(ar) ==
    Compress(ar, [i \in 1..Len(ar) |-> \A j \in 1..(i - 1) : ar[j] # ar[i]])

\* np.unique (line 50): sort, then keep every element that differs from its
\* predecessor.
np_unique(ar) ==
    LET aux  == np_sort(ar)
        mask == [i \in 1..Len(aux) |-> i = 1 \/ aux[i] # aux[i - 1]]
    IN  Compress(aux, mask)

\* {char: i for i, char in enumerate(unique_chains)} (line 51)
RECURSIVE EnumerateDict(_, _, _)
EnumerateDict(unique_chains, i, d) ==
    IF i > Len(unique_chains) THEN d
    ELSE EnumerateDict(unique_chains, i + 1,
                       DictSet(d, unique_chains[i], i - 1))

\* np.array([chain_to_num[char] for char in ids]).reshape(1, -1) (line 54):
\* one row of N codes.

CodeRow(ids, c2n) == << [i \in 1..Len(ids) |-> DictGet(c2n, ids[i])] >>

\* Faulty variant of np_where: the positions of char in descending order.
WhereDescending(ids, char) ==
    LET hits == {i \in 1..Len(ids) : ids[i] = char}
        n    == Cardinality(hits)
    IN  [k \in 1..n |->
            (CHOOSE i \in hits : Cardinality({j \in hits : j > i}) = k - 1) - 1]

\* np.where(token_chain_ids == char)[0] (line 61): the 0-based positions of
\* char, ascending.
np_where(ids, char) ==
    Compress([i \in 1..Len(ids) |-> i - 1],
             [i \in 1..Len(ids) |-> ids[i] = char])

\* indices[0] (line 62)
FirstOf(indices) == indices[1]

\* Faulty variant of LastOf: indices[0] where indices[-1] is meant.
LastOfAsFirst(indices) == indices[1]

\* indices[-1] (line 63)
LastOf(indices) == indices[Len(indices)]

\* The loop of lines 60-63 over unique_chains[i..], extending the two dicts;
\* indices[0] of an empty array is an IndexError.
RECURSIVE StartEndLoop(_, _, _, _, _)
StartEndLoop(ids, unique_chains, i, starts, ends) ==
    IF i > Len(unique_chains) THEN <<starts, ends, "none">>
    ELSE LET char    == unique_chains[i]
             indices == np_where(ids, char)
         IN  IF indices = <<>>
             THEN <<starts, ends, "IndexError">>
             ELSE StartEndLoop(ids, unique_chains, i + 1,
                               DictSet(starts, char, FirstOf(indices)),
                               DictSet(ends, char, LastOf(indices)))

\* process_token_chains (lines 35-65): the exception it raises, or the four
\* values it returns.
process_token_chains(ids) ==
    LET unique_chains == np_unique(ids)
        c2n           == EnumerateDict(unique_chains, 1, <<>>)
        se            == StartEndLoop(ids, unique_chains, 1, <<>>, <<>>)
    IN  IF \E i \in 1..Len(ids) : ~DictHas(c2n, ids[i])
        THEN [exception |-> "KeyError"]
        ELSE IF se[3] # "none"
        THEN [exception |-> se[3]]
        ELSE [exception            |-> "none",
              chain_to_num         |-> c2n,
              chain_to_start_index |-> se[1],
              chain_to_end_index   |-> se[2],
              token_chain_nums     |-> CodeRow(ids, c2n)]

\* ------------------------------------------------------------- the inputs

\* token_res_ids of a prediction of N tokens: consecutive residue numbers
\* that cross a multiple of 200.
ResIds(N) == [i \in 1..N |-> TickEvery - 2 + i]

\* pae of a prediction of N tokens: an N x N matrix.
Pae(N) == [i \in 1..N |-> [j \in 1..N |-> 0]]

\* A full-data JSON object holding the keys K.
FullObject(ids, K) ==
    [k \in K |-> CASE k = "token_chain_ids" -> ids
                   [] k = "token_res_ids"   -> ResIds(Len(ids))
                   [] k = "pae"             -> Pae(Len(ids))]

Missing == [st |-> "missing"]

Malformed == [st |-> "malformed"]

Valid(json) == [st |-> "ok", json |-> json]

JsonArray == [type |-> "array"]

JsonObject(obj) == [type |-> "object", obj |-> obj]

\* The well-formed files of a prediction whose token_chain_ids is ids.
GoodFull(ids) == Valid(JsonObject(FullObject(ids, Keys)))

GoodConf == Valid(JsonObject([ptm |-> 0]))

\* What a full-data file can be instead: absent, not JSON, JSON that is not
\* an object, or an object that lacks keys.
FullDeviations(ids) ==
    {Missing, Malformed, Valid(JsonArray)}
    \cup {Valid(JsonObject(FullObject(ids, K))) : K \in (SUBSET Keys) \ {Keys}}

\* What a summary-confidences file can be instead: absent, not JSON, JSON
\* that is not an object, or an object with other content.
ConfDeviations ==
    {Missing, Malformed, Valid(JsonArray), Valid(JsonObject([ptm |-> 1]))}

\* The token_chain_ids of the predictions the script is run on: the short
\* sequences over two labels, and one prediction of three chains.
MainLabelSeqs == SeqsOf({1, 2}, 1, MainMaxLen) \cup {<<2, 2, 1, 3>>}

\* The directories of a prediction with token_chain_ids ids in which the
\* files of Df (full-data) and Dc (summary-confidences) deviate.
Directories(ids, Df, Dc) ==
    {<<[m \in 1..NumModels |-> IF (m - 1) \in Df THEN df[m - 1] ELSE GoodFull(ids)],
       [m \in 1..NumModels |-> IF (m - 1) \in Dc THEN dc[m - 1] ELSE GoodConf]>> :
        df \in [Df -> FullDeviations(ids)], dc \in [Dc -> ConfDeviations]}

\* The summary-confidences files, and the full-data files, that deviate.
Deviating(c) == {m \in 1..NumModels : c[m] # GoodConf}

DeviatingFull(f) ==
    {m \in 1..NumModels :
        f[m] = Missing \/ f[m] = Malformed \/ f[m].json.type # "object"
        \/ DOMAIN f[m].json.obj # Keys}

NoPrev == [exited |-> FALSE]

UsageMessage == "Usage: python vis_pae.py <alphafold_prediction_directory>"

\* ---------------------------------------------------------- process start

\* The values every run starts from, whatever its inputs.
Fresh ==
    /\ pc = "start"
    /\ opened = <<>>
    /\ json_data_full = <<>>
    /\ json_data_confidence = <<>>
    /\ model_num = 0
    /\ chain_to_num = <<>>
    /\ chain_to_start_index = <<>>
    /\ chain_to_end_index = <<>>
    /\ token_chain_nums = <<>>
    /\ xticks_loc = <<>>
    /\ xticks_present = <<>>
    /\ figure = <<>>
    /\ lines = <<>>
    /\ texts = <<>>
    /\ written = <<>>
    /\ stdout = <<>>
    /\ error = "none"
    /\ exit_status = -1

Init ==
    /\ argc \in {1, 2}
    /\ \E ids \in MainLabelSeqs :
       \E Df \in SUBSET Models, Dc \in SUBSET Models :
          /\ Cardinality(Df) + Cardinality(Dc) <= MaxDefects
          /\ \E d \in Directories(ids, Df, Dc) :
                /\ files_full = d[1]
                /\ files_conf = d[2]
    /\ Fresh
    /\ token_chain_ids = <<>>
    /\ run = 1
    /\ prev = NoPrev

\* --------------------------------------------------------------- __main__

\* Faulty variant of MissingArgument: len(sys.argv) < 1, which never holds.
MissingArgumentNever(n) == n < 1

\* len(sys.argv) < 2 (line 166)
MissingArgument(n) == n < 2

\* An uncaught exception: the interpreter prints the traceback to stderr and
\* the process exits with status 1.
Abort(exception) ==
    /\ pc' = "exited"
    /\ error' = exception
    /\ exit_status' = 1

\* Lines 166-168: the usage message and sys.exit(1).
Usage ==
    /\ pc = "start"
    /\ MissingArgument(argc)
    /\ stdout' = Append(stdout, UsageMessage)
    /\ pc' = "exited"
    /\ exit_status' = 1
    /\ UNCHANGED <<argc, files_full, files_conf, opened, json_data_full,
                   json_data_confidence, model_num, token_chain_ids,
                   chain_to_num, chain_to_start_index, chain_to_end_index,
                   token_chain_nums, xticks_loc, xticks_present, figure,
                   lines, texts, written, error, run, prev>>

\* Lines 169-170 and 70-71: sys.argv[1] is read (an IndexError when there is
\* no such element), main is entered and builds the ten file names.
EnterMain ==
    /\ pc = "start"
    /\ ~MissingArgument(argc)
    /\ IF argc < 2
       THEN Abort("IndexError")
       ELSE pc' = "load_full" /\ UNCHANGED <<error, exit_status>>
    /\ UNCHANGED <<argc, files_full, files_conf, opened, json_data_full,
                   json_data_confidence, model_num, token_chain_ids,
                   chain_to_num, chain_to_start_index, chain_to_end_index,
                   token_chain_nums, xticks_loc, xticks_present, figure,
                   lines, texts, written, stdout, run, prev>>

\* ----------------------------------------------------------- Input Loader

\* Faulty variant of json_load: a file that is missing or malformed loads as
\* an empty object.
json_load_lenient(file) ==
    IF file.st = "ok"
    THEN [exception |-> "none", value |-> file.json]
    ELSE [exception |-> "none", value |-> JsonObject(<<>>)]

\* json.load(open(name)): the exception raised, or the parsed value.
json_load(file) ==
    CASE file.st = "missing"   -> [exception |-> "FileNotFoundError"]
      [] file.st = "malformed" -> [exception |-> "JSONDecodeError"]
      [] file.st = "ok"        -> [exception |-> "none", value |-> file.json]

\* Faulty variant of LoadComplete: range(4), one file short.
LoadCompleteEarly(n) == n >= NumModels - 1

\* range(5) of lines 70, 71: a list of n elements is complete.
LoadComplete(n) == n = NumModels

\* Line 75, one element of the list comprehension: full-data file i.
LoadFull ==
    /\ pc = "load_full"
    /\ LET i == Len(json_data_full)
           r == json_load(files_full[i + 1])
       IN  /\ opened' = Append(opened, <<"full_data", i>>)
           /\ IF r.exception # "none"
              THEN /\ Abort(r.exception)
                   /\ UNCHANGED json_data_full
              ELSE /\ json_data_full' = Append(json_data_full, r.value)
                   /\ pc' = IF LoadComplete(i + 1) THEN "load_conf"
                                                   ELSE "load_full"
                   /\ UNCHANGED <<error, exit_status>>
    /\ UNCHANGED <<argc, files_full, files_conf, json_data_confidence,
                   model_num, token_chain_ids, chain_to_num,
                   chain_to_start_index, chain_to_end_index, token_chain_nums,
                   xticks_loc, xticks_present, figure, lines, texts, written,
                   stdout, run, prev>>

\* Line 76, one element of the list comprehension: summary file i.
LoadConf ==
    /\ pc = "load_conf"
    /\ LET i == Len(json_data_confidence)
           r == json_load(files_conf[i + 1])
       IN  /\ opened' = Append(opened, <<"summary_confidences", i>>)
           /\ IF r.exception # "none"
              THEN /\ Abort(r.exception)
                   /\ UNCHANGED json_data_confidence
              ELSE /\ json_data_confidence' =
                          Append(json_data_confidence, r.value)
                   /\ pc' = IF LoadComplete(i + 1) THEN "loop"
                                                   ELSE "load_conf"
                   /\ UNCHANGED <<error, exit_status>>
    /\ UNCHANGED <<argc, files_full, files_conf, json_data_full, model_num,
                   token_chain_ids, chain_to_num, chain_to_start_index,
                   chain_to_end_index, token_chain_nums, xticks_loc,
                   xticks_present, figure, lines, texts, written, stdout,
                   run, prev>>

\* ------------------------------------------------------ the loop of main

\* value.keys(): only a JSON object (a dict) has the method.
HasKeysMethod(json) == json.type = "object"

\* Faulty variant of Lookup: value.get(key, []), an absent key reads as an
\* empty list.
LookupWithDefault(json, key) ==
    IF key \in DOMAIN json.obj
    THEN [exception |-> "none", value |-> json.obj[key]]
    ELSE [exception |-> "none", value |-> <<>>]

\* value[key] on a dict: a KeyError, or the value stored under the key.
Lookup(json, key) ==
    IF key \in DOMAIN json.obj
    THEN [exception |-> "none", value |-> json.obj[key]]
    ELSE [exception |-> "KeyError"]

\* Lines 78-85: the next model_num of range(5), and the two .keys() calls.
LoopNext ==
    /\ pc = "loop"
    /\ model_num < NumModels
    /\ IF /\ HasKeysMethod(json_data_full[model_num + 1])
          /\ HasKeysMethod(json_data_confidence[model_num + 1])
       THEN pc' = "segment" /\ UNCHANGED <<error, exit_status>>
       ELSE Abort("AttributeError")
    /\ UNCHANGED <<argc, files_full, files_conf, opened, json_data_full,
                   json_data_confidence, model_num, token_chain_ids,
                   chain_to_num, chain_to_start_index, chain_to_end_index,
                   token_chain_nums, xticks_loc, xticks_present, figure,
                   lines, texts, written, stdout, run, prev>>

\* Line 78 with range(5) exhausted: main returns and the process ends.
Finish ==
    /\ pc = "loop"
    /\ model_num = NumModels
    /\ pc' = "exited"
    /\ exit_status' = 0
    /\ UNCHANGED <<argc, files_full, files_conf, opened, json_data_full,
                   json_data_confidence, model_num, token_chain_ids,
                   chain_to_num, chain_to_start_index, chain_to_end_index,
                   token_chain_nums, xticks_loc, xticks_present, figure,
                   lines, texts, written, stdout, error, run, prev>>

\* Line 90: the call of process_token_chains.
Segment ==
    /\ pc = "segment"
    /\ LET arg == Lookup(json_data_full[model_num + 1], "token_chain_ids")
       IN  IF arg.exception # "none"
           THEN /\ Abort(arg.exception)
                /\ UNCHANGED <<token_chain_ids, chain_to_num,
                               chain_to_start_index, chain_to_end_index,
                               token_chain_nums>>
           ELSE LET r == process_token_chains(arg.value)
                IN  IF r.exception # "none"
                    THEN /\ Abort(r.exception)
                         /\ token_chain_ids' = arg.value
                         /\ UNCHANGED <<chain_to_num, chain_to_start_index,
                                        chain_to_end_index, token_chain_nums>>
                    ELSE
                    /\ token_chain_ids' = arg.value
                    /\ chain_to_num' = r.chain_to_num
                    /\ chain_to_start_index' = r.chain_to_start_index
                    /\ chain_to_end_index' = r.chain_to_end_index
                    /\ token_chain_nums' = r.token_chain_nums
                    /\ pc' = "ticks"
                    /\ UNCHANGED <<error, exit_status>>
    /\ UNCHANGED <<argc, files_full, files_conf, opened, json_data_full,
                   json_data_confidence, model_num, xticks_loc,
                   xticks_present, figure, lines, texts, written, stdout,
                   run, prev>>

\* token_res_ids == 1 (line 97): a list never equals an int.
ListEqualsInt == FALSE

\* The positions i of range(len(token_res_ids)) that pass the test of line 97.
TickPositions(token_res_ids) ==
    Compress([i \in 1..Len(token_res_ids) |-> i - 1],
             [i \in 1..Len(token_res_ids) |->
                 ListEqualsInt \/ token_res_ids[i] % TickEvery = 0])

\* Lines 93-99: the tick lists (computed, never drawn).
Ticks ==
    /\ pc = "ticks"
    /\ LET got == Lookup(json_data_full[model_num + 1], "token_res_ids")
       IN  IF got.exception # "none"
           THEN /\ Abort(got.exception)
                /\ UNCHANGED <<xticks_loc, xticks_present>>
           ELSE LET token_res_ids == got.value
                    loc == TickPositions(token_res_ids)
                IN  /\ xticks_loc' = loc
                    /\ xticks_present' =
                          [k \in 1..Len(loc) |-> token_res_ids[loc[k] + 1]]
                    /\ pc' = "heatmap"
                    /\ UNCHANGED <<error, exit_status>>
    /\ UNCHANGED <<argc, files_full, files_conf, opened, json_data_full,
                   json_data_confidence, model_num, token_chain_ids,
                   chain_to_num, chain_to_start_index, chain_to_end_index,
                   token_chain_nums, figure, lines, texts, written, stdout,
                   run, prev>>

\* token_chain_nums.T (line 133): N rows of one code.
Transpose(row) == [i \in 1..Len(row[1]) |-> <<row[1][i]>>]

\* Faulty variant of Panels: the figure also shows the summary confidences of
\* the model.
PanelsWithScore(m, pae_array) ==
    [image    |-> pae_array,
     colorbar |-> "PAE",
     title    |-> json_data_confidence[m + 1].obj,
     topbar   |-> token_chain_nums,
     leftbar  |-> Transpose(token_chain_nums)]

\* The panels of the figure of model m (lines 107, 128, 133, 137): the
\* heatmap of pae_array, the two chain strips and the colorbar.
Panels(m, pae_array) ==
    [image    |-> pae_array,
     colorbar |-> "PAE",
     topbar   |-> token_chain_nums,
     leftbar  |-> Transpose(token_chain_nums)]

\* Lines 103-137: a new figure with the heatmap, the colorbar and the two
\* chain strips; it has no separator and no text yet.
Heatmap ==
    /\ pc = "heatmap"
    /\ LET got == Lookup(json_data_full[model_num + 1], "pae")
       IN  IF got.exception # "none"
           THEN /\ Abort(got.exception)
                /\ UNCHANGED <<figure, lines, texts>>
           ELSE /\ figure' = Panels(model_num, got.value)
                /\ lines' = <<>>
                /\ texts' = <<>>
                /\ pc' = "separators"
                /\ UNCHANGED <<error, exit_status>>
    /\ UNCHANGED <<argc, files_full, files_conf, opened, json_data_full,
                   json_data_confidence, model_num, token_chain_ids,
                   chain_to_num, chain_to_start_index, chain_to_end_index,
                   token_chain_nums, xticks_loc, xticks_present, written,
                   stdout, run, prev>>

\* Faulty variant of DrawsSeparator: a separator for every chain.
DrawsSeparatorAlways(start_index) == start_index >= 0

\* Line 142: start_index != 0
DrawsSeparator(start_index) == start_index # 0

\* Faulty variant of SeparatorAt: start_index + 0.5.
SeparatorAtUpperEdge(start_index) == 2 * start_index + 1

\* start_index - 0.5, in half-token units
SeparatorAt(start_index) == 2 * start_index - 1

\* Lines 143-146: the four lines of one separator.
SeparatorOf(start_index) ==
    LET at == SeparatorAt(start_index)
    IN  << [axes |-> "ax",      call |-> "axhline", at |-> at, color |-> "k", linestyle |-> "--"],
           [axes |-> "ax",      call |-> "axvline", at |-> at, color |-> "k", linestyle |-> "--"],
           [axes |-> "topbar",  call |-> "axvline", at |-> at, color |-> "w", linestyle |-> "-"],
           [axes |-> "leftbar", call |-> "axhline", at |-> at, color |-> "w", linestyle |-> "-"] >>

\* The loop of lines 141-146 over the items i.. of chain_to_start_index.
RECURSIVE SeparatorLines(_, _)
SeparatorLines(starts, i) ==
    IF i > Len(starts) THEN <<>>
    ELSE (IF DrawsSeparator(starts[i][2]) THEN SeparatorOf(starts[i][2])
                                          ELSE <<>>)
         \o SeparatorLines(starts, i + 1)

\* Lines 141-146: the separators are added to the figure.
Separators ==
    /\ pc = "separators"
    /\ lines' = lines \o SeparatorLines(chain_to_start_index, 1)
    /\ pc' = "labels"
    /\ UNCHANGED <<argc, files_full, files_conf, opened, json_data_full,
                   json_data_confidence, model_num, token_chain_ids,
                   chain_to_num, chain_to_start_index, chain_to_end_index,
                   token_chain_nums, xticks_loc, xticks_present, figure,
                   texts, written, stdout, error, exit_status, run, prev>>

\* (start_index + end_index) / 2, in half-token units
CenterAt(start_index, end_index) == start_index + end_index

\* The loop of lines 149-156 over the keys i.. of chain_to_start_index.
RECURSIVE LabelTexts(_, _, _)
LabelTexts(starts, ends, i) ==
    IF i > Len(starts) THEN <<>>
    ELSE LET char         == starts[i][1]
             center_index == CenterAt(DictGet(starts, char), DictGet(ends, char))
         IN  << [axes |-> "topbar",  x |-> center_index, y |-> 0, s |-> char],
                [axes |-> "leftbar", x |-> 0, y |-> center_index, s |-> char] >>
             \o LabelTexts(starts, ends, i + 1)

\* Lines 149-156: the chain labels are added to the two strips.
LabelOverlay ==
    /\ pc = "labels"
    /\ texts' = texts \o LabelTexts(chain_to_start_index, chain_to_end_index, 1)
    /\ pc' = "save"
    /\ UNCHANGED <<argc, files_full, files_conf, opened, json_data_full,
                   json_data_confidence, model_num, token_chain_ids,
                   chain_to_num, chain_to_start_index, chain_to_end_index,
                   token_chain_nums, xticks_loc, xticks_present, figure,
                   lines, written, stdout, error, exit_status, run, prev>>

\* Line 159: figure_pae_<model_num>.png is written; the loop goes on.
Save ==
    /\ pc = "save"
    /\ written' = Append(written, [model_num |-> model_num,
                                   figure    |-> figure,
                                   lines     |-> lines,
                                   texts     |-> texts])
    /\ model_num' = model_num + 1
    /\ pc' = "loop"
    /\ UNCHANGED <<argc, files_full, files_conf, opened, json_data_full,
                   json_data_confidence, token_chain_ids, chain_to_num,
                   chain_to_start_index, chain_to_end_index, token_chain_nums,
                   xticks_loc, xticks_present, figure, lines, texts, stdout,
                   error, exit_status, run, prev>>

Next ==
    \/ Usage
    \/ EnterMain
    \/ LoadFull
    \/ LoadConf
    \/ LoopNext
    \/ Finish
    \/ Segment
    \/ Ticks
    \/ Heatmap
    \/ Separators
    \/ LabelOverlay
    \/ Save

Spec == Init /\ [][Next]_vars

\* --------------------------------------------- a second run of the script

\* What a finished run did.
Outcome ==
    [exited      |-> TRUE,
     files_conf  |-> files_conf,
     written     |-> written,
     stdout      |-> stdout,
     error       |-> error,
     exit_status |-> exit_status]

\* The script is started again with the same argument on the same directory,
\* in which some summary-confidences files have been replaced.
Rerun ==
    /\ pc = "exited"
    /\ run = 1
    /\ run' = 2
    /\ prev' = Outcome
    /\ \E C \in (SUBSET (1..NumModels)) \ {{}} :
          /\ Cardinality(C) + Cardinality(DeviatingFull(files_full))
                + Cardinality(Deviating(files_conf)) <= MaxDefects
          /\ \E new \in [C -> {GoodConf} \cup ConfDeviations] :
                /\ \A m \in C : new[m] # files_conf[m]
                /\ files_conf' = [m \in 1..NumModels |->
                                     IF m \in C THEN new[m] ELSE files_conf[m]]
    /\ pc' = "start"
    /\ opened' = <<>>
    /\ json_data_full' = <<>>
    /\ json_data_confidence' = <<>>
    /\ model_num' = 0
    /\ token_chain_ids' = <<>>
    /\ chain_to_num' = <<>>
    /\ chain_to_start_index' = <<>>
    /\ chain_to_end_index' = <<>>
    /\ token_chain_nums' = <<>>
    /\ xticks_loc' = <<>>
    /\ xticks_present' = <<>>
    /\ figure' = <<>>
    /\ lines' = <<>>
    /\ texts' = <<>>
    /\ written' = <<>>
    /\ stdout' = <<>>
    /\ error' = "none"
    /\ exit_status' = -1
    /\ UNCHANGED <<argc, files_full>>

NextPair ==
    \/ Next
    \/ Rerun

SpecPair == Init /\ [][NextPair]_vars

\* ------------------------------- process_token_chains on any label sequence

\* "AAABBBCCC" and "ABABAB"
Examples == {<<1, 1, 1, 2, 2, 2, 3, 3, 3>>, <<1, 2, 1, 2, 1, 2>>}

\* A caller that holds a label sequence and is about to pass it to
\* process_token_chains.
InitSeg ==
    /\ argc = 2
    /\ files_full = <<>>
    /\ files_conf = <<>>
    /\ Fresh
    /\ run = 1
    /\ prev = NoPrev
    /\ token_chain_ids \in SeqsOf(Labels, 0, MaxLen) \cup Examples

\* The call of process_token_chains (lines 35-65) on the sequence, as line 90
\* binds its results.
CallSegmenter ==
    /\ pc = "start"
    /\ LET r == process_token_chains(token_chain_ids)
       IN  IF r.exception # "none"
           THEN /\ Abort(r.exception)
                /\ UNCHANGED <<chain_to_num, chain_to_start_index,
                               chain_to_end_index, token_chain_nums>>
           ELSE /\ chain_to_num' = r.chain_to_num
                /\ chain_to_start_index' = r.chain_to_start_index
                /\ chain_to_end_index' = r.chain_to_end_index
                /\ token_chain_nums' = r.token_chain_nums
                /\ pc' = "separators"
                /\ UNCHANGED <<error, exit_status>>
    /\ UNCHANGED <<argc, files_full, files_conf, opened, json_data_full,
                   json_data_confidence, model_num, token_chain_ids,
                   xticks_loc, xticks_present, figure, lines, texts, written,
                   stdout, run, prev>>

NextSeg ==
    \/ CallSegmenter
    \/ Separators
    \/ LabelOverlay

SpecSeg == InitSeg /\ [][NextSeg]_vars

\* ================================================================ claims

\* ---- vocabulary of the claims

\* The run is past the Input Loader: in the loop over the models.
Processing ==
    pc \in {"loop", "segment", "ticks", "heatmap", "separators", "labels", "save"}

\* process_token_chains has returned and its results are bound.
SegmenterReturned ==
    pc \in {"ticks", "heatmap", "separators", "labels", "save"}

\* The loop of lines 141-146 has run on the results of the segmenter.
SeparatorsDrawn == pc \in {"labels", "save"}

\* The model indices of the images written so far, in order.
WrittenModels == [k \in 1..Len(written) |-> written[k].model_num]

FileLoads(f) == f.st = "ok"

AllFilesLoad ==
    \A m \in 1..NumModels : FileLoads(files_full[m]) /\ FileLoads(files_conf[m])

IsObject(f) == FileLoads(f) /\ f.json.type = "object"

\* The full-data file of model m is a JSON object that lacks a required key.
LacksKey(m) ==
    /\ IsObject(files_full[m + 1])
    /\ DOMAIN files_full[m + 1].json.obj # Keys

\* Both files of model m are JSON objects and the full data has every key.
WellFormed(m) ==
    /\ IsObject(files_full[m + 1])
    /\ DOMAIN files_full[m + 1].json.obj = Keys
    /\ IsObject(files_conf[m + 1])

\* The 0-based positions at which label c occurs in ids.
Occurrences(ids, c) == {i \in 0..(Len(ids) - 1) : ids[i + 1] = c}

Least(S) == CHOOSE x \in S : \A y \in S : x <= y

Greatest(S) == CHOOSE x \in S : \A y \in S : x >= y

\* The 0-based positions at which a run of equal labels begins.
RunStarts(ids) ==
    {i \in 0..(Len(ids) - 1) : i = 0 \/ ids[i + 1] # ids[i]}

\* Every label of ids forms one contiguous run.
Contiguous(ids) ==
    \A c \in Range(ids) :
        Cardinality({i \in RunStarts(ids) : ids[i + 1] = c}) = 1

\* The four lines of a separator at coordinate at (half-token units) are
\* all among ls, each once.
HasSeparator(ls, at) ==
    \A a \in {<<"ax", "axhline">>, <<"ax", "axvline">>,
              <<"topbar", "axvline">>, <<"leftbar", "axhline">>} :
        Cardinality({k \in 1..Len(ls) :
                        ls[k].axes = a[1] /\ ls[k].call = a[2]
                        /\ ls[k].at = at}) = 1

SeparatorCoordinates(ls) == {ls[k].at : k \in 1..Len(ls)}

\* ---- C1

\* The precondition of C1: the script got its argument, both files of model 0
\* are present and valid, and a file of model 1 is missing.
C1_Case ==
    /\ argc >= 2
    /\ WellFormed(0)
    /\ files_full[2].st = "missing" \/ files_conf[2].st = "missing"

\* C1 as stated: when every input file for model index 0 is present and valid
\* and an input file for model index 1 is missing, the run writes
\* figure_pae_0.png before it fails on model index 1, and ends with a
\* non-zero exit status.
C1_Original ==
    (C1_Case /\ pc = "exited")
        => /\ \E k \in 1..Len(written) : written[k].model_num = 0
           /\ exit_status # 0

\* C1 as amended: when every input file for model index 0 is present and
\* valid and an input file for model index 1 is missing, the run fails in the
\* Input Loader, before any model is processed: no image is ever written, not
\* even figure_pae_0.png, and the process ends with a non-zero exit status
\* on an uncaught I/O or parse error.
C1_Amended ==
    C1_Case
        => /\ written = <<>>
           /\ ~Processing
           /\ pc = "exited"
                => /\ exit_status = 1
                   /\ error \in {"FileNotFoundError", "JSONDecodeError"}

C1_Witness ==
    /\ C1_Case
    /\ pc = "exited"
    /\ error = "FileNotFoundError"
    /\ opened # <<>>
    /\ written = <<>>

\* ---- C2

\* C2: when the script is started without the directory argument, it prints
\* the usage message and exits with status 1; in that run no input file is
\* opened, no image is written and main is never entered.
C2_Usage ==
    argc < 2
        => /\ pc \in {"start", "exited"}
           /\ opened = <<>>
           /\ written = <<>>
           /\ json_data_full = <<>>
           /\ pc = "exited"
                => /\ stdout = <<UsageMessage>>
                   /\ exit_status = 1
                   /\ error = "none"

C2_Witness ==
    /\ argc < 2
    /\ pc = "exited"
    /\ stdout = <<UsageMessage>>
    /\ exit_status = 1

\* ---- C3

\* The precondition of C3 for model k: all ten files load, the inputs of the
\* models before k are well-formed, and the full-data object of k lacks a key
\* (model k is the first the run cannot process, and what it trips on is the
\* missing key).
C3_Case(k) ==
    /\ argc >= 2
    /\ AllFilesLoad
    /\ \A j \in 0..(k - 1) : WellFormed(j)
    /\ LacksKey(k)
    /\ IsObject(files_conf[k + 1])

\* C3: when all 10 files load and the full-data JSON of model k lacks one of
\* the keys token_chain_ids, token_res_ids or pae, the run aborts with an
\* uncaught lookup error while processing model k: the images of models
\* 0..k-1 have been written and remain, and no image is written for model k
\* or for any later model.
C3_MissingKey ==
    \A k \in Models :
        C3_Case(k)
            => /\ \A i \in 1..Len(written) : written[i].model_num < k
               /\ model_num <= k
               /\ pc = "exited"
                    => /\ error = "KeyError"
                       /\ exit_status = 1
                       /\ model_num = k
                       /\ WrittenModels = [i \in 1..k |-> i - 1]

C3_Witness ==
    \E k \in Models :
        /\ k >= 2
        /\ C3_Case(k)
        /\ "pae" \notin DOMAIN files_full[k + 1].json.obj
        /\ pc = "exited"
        /\ error = "KeyError"
        /\ Len(written) = k

\* ---- C4

\* The ten files in the order the Input Loader opens them.
LoadOrder ==
    [i \in 1..(2 * NumModels) |->
        IF i <= NumModels THEN <<"full_data", i - 1>>
                          ELSE <<"summary_confidences", i - 1 - NumModels>>]

IsPrefix(s, t) == Len(s) <= Len(t) /\ SubSeq(t, 1, Len(s)) = s

\* C4: the Input Loader opens and parses all 10 files (full-data 0..4, then
\* summary-confidences 0..4), each once, before any model is processed; if
\* any of them is missing or malformed the run fails with no retry and no
\* partial result: the first image is written only after all 10 files have
\* been loaded.
C4_LoadBeforeProcessing ==
    /\ IsPrefix(opened, LoadOrder)
    /\ (Processing \/ written # <<>>)
            => /\ opened = LoadOrder
               /\ AllFilesLoad
               /\ json_data_full = [m \in 1..NumModels |-> files_full[m].json]
               /\ json_data_confidence =
                      [m \in 1..NumModels |-> files_conf[m].json]
    /\ (argc >= 2 /\ ~AllFilesLoad)
            => /\ written = <<>>
               /\ ~Processing
               /\ pc = "exited"
                    => /\ exit_status = 1
                       /\ error \in {"FileNotFoundError", "JSONDecodeError"}
                       /\ opened # <<>>

C4_Witness ==
    /\ written # <<>>
    /\ opened = LoadOrder
    /\ Len(json_data_full) = NumModels
    /\ Len(json_data_confidence) = NumModels

\* ---- C5

\* C5: for any label sequence, including the empty one (which yields empty
\* mappings without an error), process_token_chains returns mappings whose
\* number of labels equals the number of distinct entries of the input, all
\* three mappings have the same key set, and every label's recorded first
\* position is <= its recorded last position.
C5_Mappings ==
    /\ error = "none"
    /\ SegmenterReturned
        => /\ Len(chain_to_num) = Cardinality(Range(token_chain_ids))
           /\ Cardinality(Range(DictKeys(chain_to_num))) = Len(chain_to_num)
           /\ Range(DictKeys(chain_to_num)) = Range(token_chain_ids)
           /\ DictKeys(chain_to_start_index) = DictKeys(chain_to_num)
           /\ DictKeys(chain_to_end_index) = DictKeys(chain_to_num)
           /\ \A i \in 1..Len(chain_to_start_index) :
                 chain_to_start_index[i][2] <= chain_to_end_index[i][2]
           /\ token_chain_ids = <<>>
                => /\ chain_to_num = <<>>
                   /\ chain_to_start_index = <<>>
                   /\ chain_to_end_index = <<>>

C5_Witness ==
    /\ SegmenterReturned
    /\ token_chain_ids = <<>>
    /\ chain_to_num = <<>>
    /\ chain_to_start_index = <<>>
    /\ chain_to_end_index = <<>>
    /\ error = "none"

\* ---- C6

\* C6: for a label sequence in which every label forms one contiguous run
\* (e.g. "AAABBBCCC"), the first positions recorded by process_token_chains
\* are the run-start indices (0, 3, 6 in the example), and the Composer draws
\* a separator for every chain after the first and none for the first chain.
C6_ContiguousRuns ==
    (SeparatorsDrawn /\ Contiguous(token_chain_ids))
        => /\ {chain_to_start_index[i][2] : i \in 1..Len(chain_to_start_index)}
                = RunStarts(token_chain_ids)
           /\ \A c \in Range(token_chain_ids) :
                 /\ token_chain_ids[DictGet(chain_to_start_index, c) + 1] = c
                 /\ DictGet(chain_to_start_index, c) \in RunStarts(token_chain_ids)
           /\ \A i \in RunStarts(token_chain_ids) \ {0} :
                 HasSeparator(lines, 2 * i - 1)
           /\ SeparatorCoordinates(lines)
                = {2 * i - 1 : i \in RunStarts(token_chain_ids) \ {0}}

C6_Witness ==
    /\ SeparatorsDrawn
    /\ token_chain_ids = <<1, 1, 1, 2, 2, 2, 3, 3, 3>>
    /\ chain_to_start_index = << <<1, 0>>, <<2, 3>>, <<3, 6>> >>
    /\ SeparatorCoordinates(lines) = {5, 11}

\* ---- C7

\* C7: for any label sequence, contiguous or not, the first position recorded
\* for a label is the smallest index at which the label occurs and the last
\* position is the largest such index ("ABABAB": first 0, last 4 for "A",
\* first 1, last 5 for "B"); a label occurring exactly once has first = last.
C7_FirstLast ==
    SegmenterReturned
        => \A c \in Range(token_chain_ids) :
              /\ DictGet(chain_to_start_index, c)
                    = Least(Occurrences(token_chain_ids, c))
              /\ DictGet(chain_to_end_index, c)
                    = Greatest(Occurrences(token_chain_ids, c))
              /\ Cardinality(Occurrences(token_chain_ids, c)) = 1
                    => DictGet(chain_to_start_index, c)
                            = DictGet(chain_to_end_index, c)

C7_Witness ==
    /\ SegmenterReturned
    /\ token_chain_ids = <<1, 2, 1, 2, 1, 2>>
    /\ chain_to_start_index = << <<1, 0>>, <<2, 1>> >>
    /\ chain_to_end_index = << <<1, 4>>, <<2, 5>> >>

\* ---- C8

\* C8: process_token_chains gives the distinct labels the indices 0..k-1 in
\* sorted label order, whatever the order in which they first appear, and the
\* integer-coded array has shape (1, N) with entry i the index of the label
\* of token i: two tokens have the same code exactly when they have the same
\* label.
C8_Codes ==
    SegmenterReturned
        => /\ \A i \in 1..Len(chain_to_num) : chain_to_num[i][2] = i - 1
           /\ \A i, j \in 1..Len(chain_to_num) :
                 i < j => chain_to_num[i][1] < chain_to_num[j][1]
           /\ Range(DictKeys(chain_to_num)) = Range(token_chain_ids)
           /\ Len(token_chain_nums) = 1
           /\ Len(token_chain_nums[1]) = Len(token_chain_ids)
           /\ \A i \in 1..Len(token_chain_ids) :
                 token_chain_nums[1][i] = DictGet(chain_to_num, token_chain_ids[i])
           /\ \A i, j \in 1..Len(token_chain_ids) :
                 (token_chain_nums[1][i] = token_chain_nums[1][j])
                    <=> (token_chain_ids[i] = token_chain_ids[j])

C8_Witness ==
    /\ SegmenterReturned
    /\ token_chain_ids = <<3, 1, 3, 2>>
    /\ chain_to_num = << <<1, 0>>, <<2, 1>>, <<3, 2>> >>
    /\ token_chain_nums = << <<2, 0, 2, 1>> >>

\* ---- C9

\* Both runs have ended; the second differs from the first in the parsed
\* content of summary-confidences files only.
BothRunsEnded == run = 2 /\ pc = "exited" /\ prev.exited

\* The second run did what the first did: the same images with the same
\* panels, separators and labels, the same output and the same end.
SameOutcome ==
    /\ written = prev.written
    /\ stdout = prev.stdout
    /\ error = prev.error
    /\ exit_status = prev.exit_status

\* C9 as stated: for any two runs whose inputs differ only in the parsed
\* content of the summary-confidences files, each file present and valid
\* JSON in both runs, the same images are written with the same segmentation
\* and overlays, and the run ends with the same outcome.
C9_Original ==
    (/\ BothRunsEnded
     /\ \A m \in 1..NumModels :
           FileLoads(files_conf[m]) /\ FileLoads(prev.files_conf[m]))
        => SameOutcome

\* C9 as amended: for any two runs whose inputs differ only in the parsed
\* content of the summary-confidences files, each file present and holding a
\* JSON object in both runs, the same images are written with the same
\* segmentation and overlays, and the run ends with the same outcome.
C9_Amended ==
    (/\ BothRunsEnded
     /\ \A m \in 1..NumModels :
           IsObject(files_conf[m]) /\ IsObject(prev.files_conf[m]))
        => SameOutcome

C9_Witness ==
    /\ BothRunsEnded
    /\ \A m \in 1..NumModels :
          IsObject(files_conf[m]) /\ IsObject(prev.files_conf[m])
    /\ files_conf # prev.files_conf
    /\ Len(written) = NumModels
    /\ written = prev.written
    /\ exit_status = 0

\* ---- C10

\* What C10 says of the separator lines ls of a figure drawn for the label
\* sequence ids.
C10_Holds(ids, ls) ==
    LET N     == Len(ids)
        k     == Cardinality(Range(ids))
        first == [c \in Range(ids) |-> Least(Occurrences(ids, c))]
    IN  /\ \A c \in Range(ids) :
              HasSeparator(ls, 2 * first[c] - 1) <=> first[c] # 0
        /\ {c \in Range(ids) : ~HasSeparator(ls, 2 * first[c] - 1)} = {ids[1]}
        /\ Len(ls) = 4 * (k - 1)
        /\ Cardinality(SeparatorCoordinates(ls)) = k - 1
        /\ \A at \in SeparatorCoordinates(ls) : -1 < at /\ at < 2 * N - 1

\* C10: for every model with a non-empty label sequence of k distinct labels,
\* the Composer draws a separator at (first - 0.5) for exactly the chains
\* whose first occurrence index is not 0: exactly one chain (the one holding
\* token 0) gets none, exactly k-1 separators are drawn, their positions are
\* pairwise distinct, and each lies strictly between -0.5 and N-0.5. It holds
\* of the figure being composed and of every image written.
C10_Separators ==
    /\ (SeparatorsDrawn /\ token_chain_ids # <<>>)
            => C10_Holds(token_chain_ids, lines)
    /\ \A i \in 1..Len(written) :
          LET ids == json_data_full[written[i].model_num + 1].obj["token_chain_ids"]
          IN  ids # <<>> => C10_Holds(ids, written[i].lines)

C10_Witness ==
    /\ Len(written) >= 2
    /\ \A i \in 1..Len(written) :
          /\ json_data_full[written[i].model_num + 1].obj["token_chain_ids"]
                = <<2, 2, 1, 3>>
          /\ SeparatorCoordinates(written[i].lines) = {3, 5}
          /\ Len(written[i].lines) = 8

====
